---------------------------- MODULE Spec2Model ----------------------------
(***************************************************************************)
(* A model of vipyto: the `vipyto docs init` and `vipyto docs build`       *)
(* commands (vipyto/docs.py, vipyto/cli.py) and the git-root finder        *)
(* (vipyto/path.py), and set_seeds of vipyto/train.py.                     *)
(*                                                                         *)
(* Text is a sequence of tokens.  A token is a piece of a Python string;   *)
(* the newline is the token "\n".  Tokens are cut so that every literal    *)
(* the code compares against (==, startswith, in, re.match, split, strip)  *)
(* is itself a sequence of tokens, and the string operations are computed  *)
(* on these sequences.                                                     *)
(*                                                                         *)
(* A directory on the chain from the filesystem root down to the current   *)
(* working directory is its depth: 0 is "/", Parent(0) = 0.  Files the     *)
(* commands touch are paths relative to the project root.                  *)
(***************************************************************************)
EXTENDS Integers, Sequences, FiniteSets, TLC

VARIABLES
    cmd,        \* the CLI subcommand that runs: "init" or "build"
    pc,         \* position in the command's code
    cwd,        \* Path.cwd(), a depth
    gitdirs,    \* the depths d on the chain such that (d / ".git").is_dir()
    root,       \* the local `root`
    project,    \* the local `project`
    metadata,   \* the installed-package metadata version of the project, or NotFound
    version,    \* the local `version`
    lines,      \* the local `lines`
    answer,     \* what input() returned
    fs,         \* the files under the project root, now
    fs0,        \* the files under the project root when the command started
    events,     \* prompts, subprocess spawns, tree operations and logs, in order
    failed,     \* the subprocess that exited non-zero, or "none"
    error,      \* the exception that ended the command, or "none"
    exit_code,  \* the process exit status once the command has ended
    seed_arg,   \* the argument set_seeds is called with, None when omitted
    seed,       \* the parameter `seed` of set_seeds
    torch_seed, \* the seed torch.manual_seed was given, None before
    random_seed, \* the seed random.seed was given, None before
    np_seed,    \* the seed np.random.seed was given, None before
    cuda_seed,  \* the seed torch.cuda.manual_seed_all was given, None before
    cudnn_deterministic \* torch.backends.cudnn.deterministic

\* the state set_seeds works on
seedvars == <<seed_arg, seed, torch_seed, random_seed, np_seed, cuda_seed,
              cudnn_deterministic>>

vars == <<cmd, pc, cwd, gitdirs, root, project, metadata, version, lines,
          answer, fs, fs0, events, failed, error, exit_code, seedvars>>

-----------------------------------------------------------------------------
(* Bounds *)

\* deepest working directory of the command flows
FlowDepth == 2
\* most lines of a generated conf.py the rewriting pass is explored on
MaxLines == 5
\* largest seed set_seeds is called with
MaxSeed == 15

-----------------------------------------------------------------------------
(* Python string operations, on token sequences *)

NL == "\n"

None == -1

RECURSIVE splitFrom(_, _, _, _)
splitFrom(s, sep, i, cur) ==
    IF i > Len(s) THEN <<cur>>
    ELSE IF s[i] = sep THEN <<cur>> \o splitFrom(s, sep, i + 1, <<>>)
    ELSE splitFrom(s, sep, i + 1, Append(cur, s[i]))

\* s.split(sep)
split(s, sep) == splitFrom(s, sep, 1, <<>>)

RECURSIVE join(_, _)
\* sep.join(parts)
join(parts, sep) ==
    IF Len(parts) = 0 THEN <<>>
    ELSE IF Len(parts) = 1 THEN parts[1]
    ELSE parts[1] \o <<sep>> \o join(Tail(parts), sep)

\* s.startswith(prefix)
startswith(s, prefix) ==
    /\ Len(s) >= Len(prefix)
    /\ \A i \in 1..Len(prefix) : s[i] = prefix[i]

\* tok in s, for a literal that is one token
contains(s, tok) == \E i \in 1..Len(s) : s[i] = tok

RECURSIVE lstrip(_, _)
lstrip(s, chars) ==
    IF Len(s) > 0 /\ s[1] \in chars THEN lstrip(Tail(s), chars) ELSE s

RECURSIVE rstrip(_, _)
rstrip(s, chars) ==
    IF Len(s) > 0 /\ s[Len(s)] \in chars
    THEN rstrip(SubSeq(s, 1, Len(s) - 1), chars) ELSE s

\* s.strip(chars)
strip(s, chars) == rstrip(lstrip(s, chars), chars)

Whitespace == {" ", NL}

lowerChar(c) ==
    CASE c = "Y" -> "y" [] c = "N" -> "n" [] c = "E" -> "e" [] c = "S" -> "s"
      [] c = "O" -> "o" [] c = "A" -> "a" [] OTHER -> c

\* s.lower(), on a string given character by character
lower(s) == [i \in 1..Len(s) |-> lowerChar(s[i])]

-----------------------------------------------------------------------------
(* vipyto/path.py *)

\* path.parent; the parent of "/" is "/"
Parent(path) == IF path = 0 THEN 0 ELSE path - 1

RECURSIVE git_root_loop(_, _)
git_root_loop(path, dirs) ==
    IF path # Parent(path)
    THEN IF path \in dirs THEN path ELSE git_root_loop(Parent(path), dirs)
    ELSE None

\* get_git_root(), with Path.cwd() = c and the .git directories at dirs
get_git_root(c, dirs) == git_root_loop(c, dirs)

\* path.name; Path("/").name is the empty string
Name(path) == IF path = 0 THEN "" ELSE "proj" \o ToString(path)


-----------------------------------------------------------------------------
(* vipyto/docs.py: the template constants (comment lines of the templates  *)
(* are left out; every other line is one token followed by NL)             *)

PREAMBLE ==
    <<"import sys", NL, "from pathlib import Path", NL, NL,
      "ROOT = Path(__file__).resolve().parent.parent", NL,
      "sys.path.insert(0, str(ROOT))", NL>>

RTD_CONF ==
    <<NL, "version: 2", NL, "build:", NL, "  os: ubuntu-22.04", NL,
      "  tools:", NL, "    python: \"3.9\"", NL, "sphinx:", NL,
      "  configuration: docs/conf.py", NL, "python:", NL, "  install:", NL,
      "    - requirements: docs/requirements-docs.txt", NL>>

REQS ==
    <<"sphinx", NL, "myst-parser", NL, "furo", NL, "sphinx-copybutton", NL,
      "sphinx-autodoc-typehints", NL, "sphinx-autoapi", NL,
      "sphinx-math-dollar", NL, "sphinx-design", NL, "sphinx-copybutton", NL,
      "sphinxext-opengraph", NL>>

EXTS ==
    <<"extensions = [", NL,
      "    \"myst_parser\",", NL, "    \"sphinx.ext.viewcode\",", NL,
      "    \"sphinx_math_dollar\",", NL, "    \"sphinx.ext.mathjax\",", NL,
      "    \"sphinx.ext.autodoc\",", NL, "    \"sphinx.ext.intersphinx\",", NL,
      "    \"autoapi.extension\",", NL, "    \"sphinx.ext.napoleon\",", NL,
      "    \"sphinx_autodoc_typehints\",", NL, "    \"sphinx.ext.todo\",", NL,
      "    \"sphinx_design\",", NL, "    \"sphinx_copybutton\",", NL,
      "    \"sphinxext.opengraph\",", NL,
      "]", NL>>

CONFIGS ==
    <<NL, "autodoc_typehints = \"description\"", NL,
      "autoapi_type = \"python\"", NL,
      "autoapi_dirs = [str(ROOT/ \"", "$PROJECT", "\")]", NL,
      "autoapi_member_order = \"groupwise\"", NL,
      "autoapi_keep_files = False", NL,
      "myst_enable_extensions = [\"colon_fence\"]", NL,
      "ogp_site_url = \"TODO\"", NL, NL>>

INDEX ==
    <<".. include:: ../README.md", NL, "   :parser: myst_parser.sphinx_", NL,
      NL, ".. toctree::", NL, "   :hidden:", NL, "   :maxdepth: 4", NL, NL,
      "   self", NL, NL>>

\* s.replace(old, new), for an `old` that is one token
replace(s, old, new) == [i \in 1..Len(s) |-> IF s[i] = old THEN new ELSE s[i]]

-----------------------------------------------------------------------------
(* vipyto/docs.py: version resolution, lines 245-256 *)

\* get_version(project) raised PackageNotFoundError
NotFound == <<"PackageNotFoundError">>

\* `version` was never assigned
Unbound == <<"UnboundLocalError">>

\* re.match(r"version\s?=\s?.+", line): "version", at most one blank, "=",
\* then (at most one blank and) at least one more character
version_match(line) ==
    /\ Len(line) >= 1
    /\ line[1] = "version"
    /\ \E k \in {2, 3} :
          /\ k = 3 => (Len(line) >= 2 /\ line[2] \in Whitespace)
          /\ Len(line) >= k + 1
          /\ line[k] = "="

\* line.split("=")[1].strip().strip('"').strip("'")
version_value(line) ==
    strip(strip(strip(split(line, "=")[2], Whitespace), {"\""}), {"'"})

RECURSIVE version_scan(_, _)
\* for line in lines: if re.match(...): version = ...; break
version_scan(ls, i) ==
    IF i > Len(ls) THEN Unbound
    ELSE IF version_match(ls[i]) THEN version_value(ls[i])
    ELSE version_scan(ls, i + 1)

Absent == [kind |-> "absent"]
Dir == [kind |-> "dir"]
File(t) == [kind |-> "file", text |-> t]

\* the try/except chain; meta is the metadata version or NotFound, pyproject
\* is the entry of root / "pyproject.toml"
resolve_version(meta, pyproject) ==
    IF meta # NotFound THEN meta
    ELSE IF pyproject = Absent THEN <<"0.1.0">>
    ELSE version_scan(split(pyproject.text, NL), 1)

\* the local `lines` after the chain: assigned only when pyproject.toml is read
resolve_lines(meta, pyproject, old) ==
    IF meta # NotFound \/ pyproject = Absent THEN old
    ELSE split(pyproject.text, NL)

-----------------------------------------------------------------------------
(* vipyto/docs.py: the conf.py rewriting pass, lines 284-308 *)

ExtOpen == <<"extensions = [">>
ExtClose == <<"]">>
ThemePrefix == <<"html_theme =">>
FuroTheme == <<"html_theme =", " \"furo\"">>
StaticPath == <<"html_static_path = ['_static']">>
CssFiles == <<"html_css_files = [\"css/custom.css\"]">>
GeneralMarker == "# -- General configuration"

\* lines 291-298: the three rewrites of the loop variable `line`
rewrite_line(line) ==
    LET l1 == IF startswith(line, ThemePrefix) THEN FuroTheme ELSE line
        l2 == IF l1 = StaticPath THEN l1 \o <<NL>> \o CssFiles ELSE l1
        l3 == IF contains(l2, GeneralMarker) THEN PREAMBLE \o <<NL>> \o l2 ELSE l2
    IN  l3

\* fault: the loop body storing the line whatever is_exts says
loop_body_store_all(st, line) ==
    LET e1 == IF line = ExtOpen THEN TRUE ELSE st.is_exts
        l == rewrite_line(line)
        n1 == Append(st.new_lines, l)
    IN  IF e1 /\ l = ExtClose
        THEN [is_exts |-> FALSE, new_lines |-> Append(n1, EXTS)]
        ELSE [is_exts |-> e1, new_lines |-> n1]

\* fault: the loop body without `is_exts = False` at the closing line
loop_body_no_reset(st, line) ==
    LET e1 == IF line = ExtOpen THEN TRUE ELSE st.is_exts
        l == rewrite_line(line)
        n1 == IF ~e1 THEN Append(st.new_lines, l) ELSE st.new_lines
    IN  IF e1 /\ l = ExtClose
        THEN [is_exts |-> TRUE, new_lines |-> Append(n1, EXTS)]
        ELSE [is_exts |-> e1, new_lines |-> n1]

\* one iteration of the loop body, lines 288-306, on the loop state
\* st = [is_exts, new_lines]
loop_body(st, line) ==
    LET e1 == IF line = ExtOpen THEN TRUE ELSE st.is_exts
        l == rewrite_line(line)
        n1 == IF ~e1 THEN Append(st.new_lines, l) ELSE st.new_lines
    IN  IF e1 /\ l = ExtClose
        THEN [is_exts |-> FALSE, new_lines |-> Append(n1, EXTS)]
        ELSE [is_exts |-> e1, new_lines |-> n1]

RECURSIVE loop_from(_, _, _)
\* for line in lines: ..., from the i-th line on
loop_from(ls, i, st) ==
    IF i > Len(ls) THEN st
    ELSE loop_from(ls, i + 1, loop_body(st, ls[i]))

\* lines 285-308: the text written back to conf.py for the lines read from it
rewrite_conf(ls, proj) ==
    LET st == loop_from(ls, 1, [is_exts |-> FALSE, new_lines |-> <<>>])
        new_lines == Append(st.new_lines, replace(CONFIGS, "$PROJECT", proj))
    IN  join(new_lines, NL)


-----------------------------------------------------------------------------
(* The files under the project root *)

PYPROJECT == <<"pyproject.toml">>
RTD == <<".readthedocs.yml">>
DOCS == <<"docs">>
CONF == <<"docs", "conf.py">>
NOTES == <<"docs", "notes.txt">>
INDEXRST == <<"docs", "index.rst">>
MAKEFILE == <<"docs", "Makefile">>
REQSTXT == <<"docs", "requirements-docs.txt">>
STATIC == <<"docs", "_static">>
CSS == <<"docs", "_static", "css">>
IMAGES == <<"docs", "_static", "images">>
CUSTOMCSS == <<"docs", "_static", "css", "custom.css">>
BUILD == <<"docs", "_build">>

Paths ==
    {PYPROJECT, RTD, DOCS, CONF, NOTES, INDEXRST, MAKEFILE, REQSTXT, STATIC,
     CSS, IMAGES, CUSTOMCSS, BUILD}

\* fault: only the directory entry is removed, not what is under it
rmtree_shallow(tree, dir) == [tree EXCEPT ![dir] = Absent]

\* shutil.rmtree(dir)
rmtree(tree, dir) ==
    [p \in Paths |-> IF startswith(p, dir) THEN Absent ELSE tree[p]]

\* path.touch()
touch(entry) == IF entry = Absent THEN File(<<>>) ELSE entry

\* what a user's earlier documentation holds
Old == File(<<"written by the user">>)

PyprojectFiles ==
    { Absent,
      File(<<"[project]", NL, "name", " ", "=", " ", "\"", "proj", "\"", NL,
             "version", " ", "=", " ", "\"", "2.3.1", "\"", NL>>),
      File(<<"version", "=", "'", "1.0", "'", NL,
             "version", " ", "=", " ", "\"", "9.9", "\"">>),
      File(<<"[project]", NL, "name", " ", "=", " ", "\"", "proj", "\"", NL>>) }

EmptyTree == [p \in Paths |-> Absent]

DocsTrees ==
    { EmptyTree,
      [EmptyTree EXCEPT ![DOCS] = Dir],
      [EmptyTree EXCEPT ![DOCS] = Dir, ![CONF] = Old, ![NOTES] = Old,
                        ![MAKEFILE] = Old] }

InitialTrees ==
    { [t EXCEPT ![PYPROJECT] = f] : t \in DocsTrees, f \in PyprojectFiles }

\* answers to the overwrite prompt, character by character
Answers ==
    { <<"y">>, <<"n">>, <<>>, <<"Y", "e", "s">>, <<"n", "a", "y">> }

\* the lines sphinx-quickstart writes to conf.py
EntryLine == <<"    ", "'sphinx.ext.autodoc',">>
ThemeLine == <<"html_theme =", " 'alabaster'">>
GeneralLine == <<GeneralMarker, " ---------">>
BlankLine == <<>>

QuickstartConfs ==
    { <<GeneralLine, ExtOpen, EntryLine, ExtClose, ThemeLine, StaticPath,
        BlankLine>>,
      <<ExtOpen, EntryLine, EntryLine, ExtClose, BlankLine>> }

\* the tree after a successful `sphinx-quickstart ... --no-sep --makefile docs/`
quickstart_tree(tree, conf) ==
    [tree EXCEPT ![CONF] = File(join(conf, NL)),
                 ![INDEXRST] = File(<<"Welcome to the documentation!", NL>>),
                 ![MAKEFILE] = File(<<"# Minimal makefile for Sphinx", NL>>),
                 ![STATIC] = Dir]

-----------------------------------------------------------------------------
(* How a command ends *)

\* an uncaught exception: traceback, exit status 1
Raise(e) ==
    /\ pc' = "crashed"
    /\ error' = e
    /\ exit_code' = 1

\* the command function returns
Return ==
    /\ pc' = "done"
    /\ exit_code' = 0
    /\ UNCHANGED error

\* fault: the exit status is not checked (subprocess.run without check=True)
run_command_unchecked(command, ok, next) ==
    /\ events' = Append(events, "spawn:" \o command)
    /\ pc' = next
    /\ failed' = IF ok THEN failed ELSE pc
    /\ UNCHANGED <<error, exit_code>>

\* vipyto/cmd.py run_command(command): subprocess.check_output raises
\* CalledProcessError on a non-zero exit
run_command(command, ok, next) ==
    /\ events' = Append(events, "spawn:" \o command)
    /\ IF ok
       THEN pc' = next /\ UNCHANGED <<failed, error, exit_code>>
       ELSE failed' = pc /\ Raise("CalledProcessError")


-----------------------------------------------------------------------------
(* vipyto/docs.py init_docs, run by `vipyto docs init` *)

\* line 260: "y" not in input(...).lower()
declined(a) == ~contains(lower(a), "y")

\* fault: an absent root is not dereferenced (project = "" and carry on)
InitGetRootUnchecked ==
    /\ cmd = "init" /\ pc = "start"
    /\ root' = get_git_root(cwd, gitdirs)
    /\ project' = IF root' = None THEN "" ELSE Name(root')
    /\ pc' = "git_config"
    /\ UNCHANGED <<seedvars, cmd, cwd, gitdirs, metadata, version, lines, answer, fs,
                   fs0, events, failed, error, exit_code>>

\* lines 242-243: root = get_git_root(); project = root.name
InitGetRoot ==
    /\ cmd = "init" /\ pc = "start"
    /\ root' = get_git_root(cwd, gitdirs)
    /\ IF root' = None
       THEN Raise("AttributeError") /\ UNCHANGED project
       ELSE /\ project' = Name(root')
            /\ pc' = "git_config"
            /\ UNCHANGED <<error, exit_code>>
    /\ UNCHANGED <<seedvars, cmd, cwd, gitdirs, metadata, version, lines, answer, fs,
                   fs0, events, failed>>

\* line 244: author = run_command("git config user.name")
InitGitConfig ==
    /\ cmd = "init" /\ pc = "git_config"
    /\ \E ok \in BOOLEAN : run_command("git config user.name", ok, "version")
    /\ UNCHANGED <<seedvars, cmd, cwd, gitdirs, root, project, metadata, version, lines,
                   answer, fs, fs0>>

\* lines 245-256
InitResolveVersion ==
    /\ cmd = "init" /\ pc = "version"
    /\ version' = resolve_version(metadata, fs[PYPROJECT])
    /\ lines' = resolve_lines(metadata, fs[PYPROJECT], lines)
    /\ pc' = "check_docs"
    /\ UNCHANGED <<seedvars, cmd, cwd, gitdirs, root, project, metadata, answer, fs,
                   fs0, events, failed, error, exit_code>>

\* lines 258-262
InitCheckDocs ==
    /\ cmd = "init" /\ pc = "check_docs"
    /\ IF fs[DOCS] = Absent
       THEN /\ pc' = "mkdir"
            /\ UNCHANGED <<answer, fs, events, error, exit_code>>
       ELSE \E a \in Answers :
              /\ answer' = a
              /\ IF declined(a)
                 THEN /\ events' = events \o <<"log:already", "prompt">>
                      /\ Return
                      /\ UNCHANGED fs
                 ELSE /\ events' = events \o
                                     <<"log:already", "prompt", "rmtree:docs">>
                      /\ fs' = rmtree(fs, DOCS)
                      /\ pc' = "mkdir"
                      /\ UNCHANGED <<error, exit_code>>
    /\ UNCHANGED <<seedvars, cmd, cwd, gitdirs, root, project, metadata, version, lines,
                   fs0, failed>>

\* lines 264-265: the log line reads `version`
InitMkdir ==
    /\ cmd = "init" /\ pc = "mkdir"
    /\ IF version = Unbound
       THEN Raise("UnboundLocalError") /\ UNCHANGED <<fs, events>>
       ELSE /\ events' = events \o <<"log:initializing", "mkdir:docs">>
            /\ fs' = [fs EXCEPT ![DOCS] = Dir]
            /\ pc' = "import_sphinx"
            /\ UNCHANGED <<error, exit_code>>
    /\ UNCHANGED <<seedvars, cmd, cwd, gitdirs, root, project, metadata, version, lines,
                   answer, fs0, failed>>

\* lines 274-277: try: import sphinx / except ImportError
InitImportSphinx ==
    /\ cmd = "init" /\ pc = "import_sphinx"
    /\ \E importable \in BOOLEAN :
          pc' = IF importable THEN "quickstart" ELSE "install_pip"
    /\ UNCHANGED <<seedvars, cmd, cwd, gitdirs, root, project, metadata, version, lines,
                   answer, fs, fs0, events, failed, error, exit_code>>

\* line 278
InitInstallPip ==
    /\ cmd = "init" /\ pc = "install_pip"
    /\ \E ok \in BOOLEAN :
          run_command("pip install --upgrade pip", ok, "install_sphinx")
    /\ UNCHANGED <<seedvars, cmd, cwd, gitdirs, root, project, metadata, version, lines,
                   answer, fs, fs0>>

\* line 279
InitInstallSphinx ==
    /\ cmd = "init" /\ pc = "install_sphinx"
    /\ \E ok \in BOOLEAN : run_command("pip install sphinx", ok, "quickstart")
    /\ UNCHANGED <<seedvars, cmd, cwd, gitdirs, root, project, metadata, version, lines,
                   answer, fs, fs0>>

\* lines 266-273, 280-281
InitQuickstart ==
    /\ cmd = "init" /\ pc = "quickstart"
    /\ \E ok \in BOOLEAN :
          /\ run_command("sphinx-quickstart", ok, "rewrite")
          /\ IF ok
             THEN \E conf \in QuickstartConfs : fs' = quickstart_tree(fs, conf)
             ELSE UNCHANGED fs
    /\ UNCHANGED <<seedvars, cmd, cwd, gitdirs, root, project, metadata, version, lines,
                   answer, fs0>>

\* lines 309-314, after conf.py has been written with `text`
scaffold_tree(tree, text) ==
    [tree EXCEPT ![CONF] = File(text),
                 ![REQSTXT] = File(REQS),
                 ![RTD] = File(RTD_CONF),
                 ![CSS] = Dir,
                 ![IMAGES] = Dir,
                 ![CUSTOMCSS] = touch(tree[CUSTOMCSS]),
                 ![INDEXRST] = File(INDEX)]

\* lines 283-314; conf.read_text() raises when quickstart left no conf.py
InitRewrite ==
    /\ cmd = "init" /\ pc = "rewrite"
    /\ IF fs[CONF] = Absent
       THEN Raise("FileNotFoundError") /\ UNCHANGED <<lines, fs>>
       ELSE /\ lines' = split(fs[CONF].text, NL)
            /\ fs' = scaffold_tree(fs, rewrite_conf(lines', project))
            /\ pc' = "pip_upgrade"
            /\ UNCHANGED <<error, exit_code>>
    /\ UNCHANGED <<seedvars, cmd, cwd, gitdirs, root, project, metadata, version,
                   answer, fs0, events, failed>>

\* line 317
InitPipUpgrade ==
    /\ cmd = "init" /\ pc = "pip_upgrade"
    /\ \E ok \in BOOLEAN :
          run_command("pip install --upgrade pip", ok, "pip_requirements")
    /\ UNCHANGED <<seedvars, cmd, cwd, gitdirs, root, project, metadata, version, lines,
                   answer, fs, fs0>>

\* fault: line 318 inside try/except CalledProcessError, logging a warning
InitPipRequirementsWarned ==
    /\ cmd = "init" /\ pc = "pip_requirements"
    /\ \E ok \in BOOLEAN :
          /\ events' = events
                \o <<"spawn:pip install -r docs/requirements-docs.txt">>
                \o (IF ok THEN <<>> ELSE <<"log:warning">>)
          /\ failed' = IF ok THEN failed ELSE pc
    /\ pc' = "make"
    /\ UNCHANGED <<seedvars, cmd, cwd, gitdirs, root, project, metadata, version, lines,
                   answer, fs, fs0, error, exit_code>>

\* line 318
InitPipRequirements ==
    /\ cmd = "init" /\ pc = "pip_requirements"
    /\ \E ok \in BOOLEAN :
          run_command("pip install -r docs/requirements-docs.txt", ok, "make")
    /\ UNCHANGED <<seedvars, cmd, cwd, gitdirs, root, project, metadata, version, lines,
                   answer, fs, fs0>>

\* lines 321-336: what the try/except around `make html` logs
make_logs(ok) ==
    IF ok THEN <<"log:built", "log:see them">> ELSE <<"log:building error">>

\* fault: `make html` outside the try/except
InitMakeUncaught ==
    /\ cmd = "init" /\ pc = "make"
    /\ \E ok \in BOOLEAN :
          IF ok
          THEN /\ events' = events \o <<"spawn:make html", "log:built",
                                        "log:see them", "log:run make">>
               /\ fs' = [fs EXCEPT ![BUILD] = Dir]
               /\ Return
               /\ UNCHANGED failed
          ELSE /\ events' = Append(events, "spawn:make html")
               /\ failed' = pc
               /\ Raise("CalledProcessError")
               /\ UNCHANGED fs
    /\ UNCHANGED <<seedvars, cmd, cwd, gitdirs, root, project, metadata, version, lines,
                   answer, fs0>>

\* lines 320-337
InitMake ==
    /\ cmd = "init" /\ pc = "make"
    /\ \E ok \in BOOLEAN :
          /\ events' = events \o <<"spawn:make html">> \o make_logs(ok)
                              \o <<"log:run make">>
          /\ failed' = IF ok THEN failed ELSE pc
          /\ fs' = IF ok THEN [fs EXCEPT ![BUILD] = Dir] ELSE fs
    /\ Return
    /\ UNCHANGED <<seedvars, cmd, cwd, gitdirs, root, project, metadata, version, lines,
                   answer, fs0>>

init_docs ==
    \/ InitGetRoot \/ InitGitConfig \/ InitResolveVersion \/ InitCheckDocs
    \/ InitMkdir \/ InitImportSphinx \/ InitInstallPip \/ InitInstallSphinx
    \/ InitQuickstart \/ InitRewrite \/ InitPipUpgrade \/ InitPipRequirements
    \/ InitMake

-----------------------------------------------------------------------------
(* vipyto/cli.py build_docs, run by `vipyto docs build` *)

\* lines 58-59: root = get_git_root(); docs = root / "docs"
BuildGetRoot ==
    /\ cmd = "build" /\ pc = "start"
    /\ root' = get_git_root(cwd, gitdirs)
    /\ IF root' = None
       THEN Raise("TypeError")
       ELSE pc' = "make" /\ UNCHANGED <<error, exit_code>>
    /\ UNCHANGED <<seedvars, cmd, cwd, gitdirs, project, metadata, version, lines,
                   answer, fs, fs0, events, failed>>

\* fault: the except branch without `raise typer.Exit(1)`
BuildMakeNoExit ==
    /\ cmd = "build" /\ pc = "make"
    /\ IF fs[DOCS] = Absent
       THEN Raise("FileNotFoundError") /\ UNCHANGED <<fs, events, failed>>
       ELSE \E ok \in BOOLEAN :
              /\ events' = events \o <<"spawn:make html">>
                    \o (IF ok THEN <<>> ELSE <<"log:error", "log:failed">>)
                    \o <<"log:success">>
              /\ failed' = IF ok THEN failed ELSE pc
              /\ fs' = IF ok THEN [fs EXCEPT ![BUILD] = Dir] ELSE fs
              /\ Return
    /\ UNCHANGED <<seedvars, cmd, cwd, gitdirs, root, project, metadata, version, lines,
                   answer, fs0>>

\* lines 60-70; check_output cannot start `make` in a directory that is not there
BuildMake ==
    /\ cmd = "build" /\ pc = "make"
    /\ IF fs[DOCS] = Absent
       THEN Raise("FileNotFoundError") /\ UNCHANGED <<fs, events, failed>>
       ELSE \E ok \in BOOLEAN :
              IF ok
              THEN /\ events' = events \o <<"spawn:make html", "log:success">>
                   /\ fs' = [fs EXCEPT ![BUILD] = Dir]
                   /\ Return
                   /\ UNCHANGED failed
              ELSE /\ events' = events \o <<"spawn:make html", "log:error",
                                            "log:failed">>
                   /\ failed' = pc
                   /\ pc' = "done"
                   /\ error' = "Exit"
                   /\ exit_code' = 1
                   /\ UNCHANGED fs
    /\ UNCHANGED <<seedvars, cmd, cwd, gitdirs, root, project, metadata, version, lines,
                   answer, fs0>>

build_docs == BuildGetRoot \/ BuildMake

-----------------------------------------------------------------------------
(* The commands, started in any working directory of the bounded chain and  *)
(* on any of the initial trees                                              *)

\* the locals and the outcome before the command has run a line
Fresh ==
    /\ pc = "start"
    /\ root = None
    /\ project = ""
    /\ version = Unbound
    /\ lines = <<>>
    /\ answer = <<>>
    /\ events = <<>>
    /\ failed = "none"
    /\ error = "none"
    /\ exit_code = None

\* no call of set_seeds: the generators are as the interpreter started them
Unseeded ==
    /\ seed_arg = None
    /\ seed = None
    /\ torch_seed = None
    /\ random_seed = None
    /\ np_seed = None
    /\ cuda_seed = None
    /\ cudnn_deterministic = FALSE

Init ==
    /\ cmd \in {"init", "build"}
    /\ cwd \in 0..FlowDepth
    /\ gitdirs \in SUBSET (0..cwd)
    /\ metadata \in {NotFound, <<"1.2.0">>}
    /\ fs0 \in InitialTrees
    /\ fs = fs0
    /\ Fresh
    /\ Unseeded

Next == init_docs \/ build_docs

Spec == Init /\ [][Next]_vars


-----------------------------------------------------------------------------
(* The rewriting pass of init_docs on every conf.py of at most MaxLines     *)
(* lines: init_docs stands at line 283, sphinx-quickstart has just written  *)
(* docs/                                                                    *)

ConfLines ==
    {ExtOpen, ExtClose, EntryLine, ThemeLine, StaticPath, GeneralLine,
     BlankLine}

AllConfs == UNION { [1..n -> ConfLines] : n \in 1..MaxLines }

InitConf ==
    /\ cmd = "init"
    /\ pc = "rewrite"
    /\ cwd = 1
    /\ gitdirs = {1}
    /\ root = 1
    /\ project = Name(1)
    /\ metadata = NotFound
    /\ version = <<"0.1.0">>
    /\ lines = <<>>
    /\ answer = <<>>
    /\ fs0 = EmptyTree
    /\ \E conf \in AllConfs :
          fs = quickstart_tree([EmptyTree EXCEPT ![DOCS] = Dir], conf)
    /\ events = <<"spawn:git config user.name", "log:initializing",
                  "mkdir:docs", "spawn:sphinx-quickstart">>
    /\ failed = "none"
    /\ error = "none"
    /\ exit_code = None
    /\ Unseeded

NextConf == InitRewrite

SpecConf == InitConf /\ [][NextConf]_vars


-----------------------------------------------------------------------------
(* vipyto/train.py set_seeds, called with any seed up to MaxSeed or with    *)
(* none                                                                     *)

\* the state of the commands, which set_seeds leaves alone
commandvars == <<cmd, cwd, gitdirs, root, project, metadata, version, lines,
                 answer, fs, fs0, events, failed, error, exit_code>>

\* the call: `seed` is bound to the argument, or to the default 0
SeedsCall ==
    /\ cmd = "set_seeds" /\ pc = "start"
    /\ seed' = IF seed_arg = None THEN 0 ELSE seed_arg
    /\ pc' = "assign"
    /\ UNCHANGED commandvars
    /\ UNCHANGED <<seed_arg, torch_seed, random_seed, np_seed, cuda_seed,
                   cudnn_deterministic>>

\* line 66: seed = 0
SeedsAssign ==
    /\ cmd = "set_seeds" /\ pc = "assign"
    /\ seed' = 0
    /\ pc' = "torch"
    /\ UNCHANGED commandvars
    /\ UNCHANGED <<seed_arg, torch_seed, random_seed, np_seed, cuda_seed,
                   cudnn_deterministic>>

\* line 67: torch.manual_seed(seed)
SeedsTorch ==
    /\ cmd = "set_seeds" /\ pc = "torch"
    /\ torch_seed' = seed
    /\ pc' = "random"
    /\ UNCHANGED commandvars
    /\ UNCHANGED <<seed_arg, seed, random_seed, np_seed, cuda_seed,
                   cudnn_deterministic>>

\* line 68: random.seed(seed)
SeedsRandom ==
    /\ cmd = "set_seeds" /\ pc = "random"
    /\ random_seed' = seed
    /\ pc' = "numpy"
    /\ UNCHANGED commandvars
    /\ UNCHANGED <<seed_arg, seed, torch_seed, np_seed, cuda_seed,
                   cudnn_deterministic>>

\* line 69: np.random.seed(seed)
SeedsNumpy ==
    /\ cmd = "set_seeds" /\ pc = "numpy"
    /\ np_seed' = seed
    /\ pc' = "cuda"
    /\ UNCHANGED commandvars
    /\ UNCHANGED <<seed_arg, seed, torch_seed, random_seed, cuda_seed,
                   cudnn_deterministic>>

\* line 70: torch.cuda.manual_seed_all(seed)
SeedsCuda ==
    /\ cmd = "set_seeds" /\ pc = "cuda"
    /\ cuda_seed' = seed
    /\ pc' = "cudnn"
    /\ UNCHANGED commandvars
    /\ UNCHANGED <<seed_arg, seed, torch_seed, random_seed, np_seed,
                   cudnn_deterministic>>

\* line 71: torch.backends.cudnn.deterministic = True
SeedsCudnn ==
    /\ cmd = "set_seeds" /\ pc = "cudnn"
    /\ cudnn_deterministic' = TRUE
    /\ pc' = "done"
    /\ UNCHANGED commandvars
    /\ UNCHANGED <<seed_arg, seed, torch_seed, random_seed, np_seed,
                   cuda_seed>>

\* no command runs: nothing of the command state is set
NoCommand ==
    /\ cwd = 0
    /\ gitdirs = {}
    /\ root = None
    /\ project = ""
    /\ metadata = NotFound
    /\ version = Unbound
    /\ lines = <<>>
    /\ answer = <<>>
    /\ fs0 = EmptyTree
    /\ fs = fs0
    /\ events = <<>>
    /\ failed = "none"
    /\ error = "none"
    /\ exit_code = None

InitSeeds ==
    /\ cmd = "set_seeds"
    /\ pc = "start"
    /\ NoCommand
    /\ seed_arg \in {None} \cup (0..MaxSeed)
    /\ seed = None
    /\ torch_seed = None
    /\ random_seed = None
    /\ np_seed = None
    /\ cuda_seed = None
    /\ cudnn_deterministic = FALSE

set_seeds ==
    \/ SeedsCall \/ SeedsAssign \/ SeedsTorch \/ SeedsRandom
    \/ SeedsNumpy \/ SeedsCuda \/ SeedsCudnn

NextSeeds == set_seeds

SpecSeeds == InitSeeds /\ [][NextSeeds]_vars

-----------------------------------------------------------------------------
(* Properties *)

Has(e) == \E i \in DOMAIN events : events[i] = e

\* every a among the events comes before every b
AllBefore(a, b) ==
    \A i, j \in DOMAIN events : (events[i] = a /\ events[j] = b) => i < j

\* a package installer, the quickstart generator or the build tool was run
ToolSpawned ==
    \/ Has("spawn:sphinx-quickstart")
    \/ Has("spawn:pip install --upgrade pip")
    \/ Has("spawn:pip install sphinx")
    \/ Has("spawn:pip install -r docs/requirements-docs.txt")
    \/ Has("spawn:make html")

\* the response begins with "y", in either case
begins_with_y(a) == Len(a) > 0 /\ lower(a)[1] = "y"

\* init_docs has prompted and got its answer
Answered == cmd = "init" /\ Has("prompt")

\* the files of steps 5 and 6 are on disk as written
ScaffoldInPlace ==
    /\ fs[CONF] = File(rewrite_conf(lines, project))
    /\ fs[REQSTXT] = File(REQS)
    /\ fs[RTD] = File(RTD_CONF)
    /\ fs[INDEXRST] = File(INDEX)
    /\ fs[CUSTOMCSS] = File(<<>>)
    /\ fs[CSS] = Dir
    /\ fs[IMAGES] = Dir

\* C1: when docs/ exists and the response to the overwrite prompt does not
\* begin with "y", init_docs returns at once and changes nothing: the tree is
\* as it was, and no quickstart, installer or build tool is run.
C1_DeclineChangesNothing ==
    (Answered /\ fs0[DOCS] # Absent /\ ~begins_with_y(answer))
        => (pc = "done" /\ fs = fs0 /\ ~ToolSpawned)

Opens(ls) == {i \in 1..Len(ls) : ls[i] = ExtOpen}

\* the closing lines of ls after position i
ClosesAfter(ls, i) == {j \in (i + 1)..Len(ls) : ls[j] = ExtClose}

\* ls holds exactly one extensions block
OneBlock(ls) ==
    /\ Cardinality(Opens(ls)) = 1
    /\ \A i \in Opens(ls) : ClosesAfter(ls, i) # {}

BlockFirst(ls) == CHOOSE i \in Opens(ls) : TRUE

BlockLast(ls) ==
    CHOOSE j \in ClosesAfter(ls, BlockFirst(ls)) :
        \A k \in ClosesAfter(ls, BlockFirst(ls)) : j <= k

LinesBefore(ls) == SubSeq(ls, 1, BlockFirst(ls) - 1)

LinesAfter(ls) == SubSeq(ls, BlockLast(ls) + 1, Len(ls))

RECURSIVE IsSubsequence(_, _)
\* the elements of a occur in b, in the order of a
IsSubsequence(a, b) ==
    IF Len(a) = 0 THEN TRUE
    ELSE IF Len(b) = 0 THEN FALSE
    ELSE IF a[1] = b[1] THEN IsSubsequence(Tail(a), Tail(b))
    ELSE IsSubsequence(a, Tail(b))

\* what the pass makes of a line outside the block, by the three rules
Rewritten(line) ==
    CASE startswith(line, ThemePrefix) -> FuroTheme
      [] line = StaticPath -> StaticPath \o <<NL>> \o CssFiles
      [] contains(line, GeneralMarker) -> PREAMBLE \o <<NL>> \o line
      [] OTHER -> line

\* the pass has run: `lines` is what was read, fs[CONF] what was written
PassDone == cmd = "init" /\ pc = "pip_upgrade"

\* C3, as stated: for conf.py lines with exactly one extensions block, the
\* written text holds the canonical extensions list once, and every line
\* outside the block with its original content, in the original order.
C3_OutsideLinesUntouched ==
    (PassDone /\ OneBlock(lines)) =>
        LET out == split(fs[CONF].text, NL)
        IN  /\ Cardinality(Opens(out)) = 1
            /\ IsSubsequence(LinesBefore(lines) \o split(EXTS, NL)
                                \o LinesAfter(lines), out)

\* C3, amended: for conf.py lines with exactly one extensions block, the
\* written text is, joined by newlines: the lines before the block, the
\* canonical EXTS text once in place of the block, the lines after the block,
\* and the CONFIGS text for the project; the lines outside the block keep
\* their order, and their content except under the pass's three line rules
\* (an html_theme line becomes the furo line, the static-path line gets the
\* css line after it, a General-configuration line gets PREAMBLE before it).
C3_BlockReplacedOnce ==
    (PassDone /\ OneBlock(lines)) =>
        fs[CONF].text =
            join([i \in 1..Len(LinesBefore(lines)) |->
                      Rewritten(LinesBefore(lines)[i])]
                 \o <<EXTS>>
                 \o [i \in 1..Len(LinesAfter(lines)) |->
                      Rewritten(LinesAfter(lines)[i])]
                 \o <<replace(CONFIGS, "$PROJECT", project)>>, NL)

C3_BlockInTheMiddle ==
    /\ PassDone
    /\ OneBlock(lines)
    /\ BlockFirst(lines) > 1
    /\ BlockLast(lines) > BlockFirst(lines) + 1
    /\ BlockLast(lines) < Len(lines)
    /\ \E i \in 1..Len(lines) : lines[i] = ThemeLine


\* the positions of the lines `version = <value>` of ls
VersionLines(ls) == {i \in 1..Len(ls) : version_match(ls[i])}

\* the value of such a line: what follows the first "=", without the blanks
\* and quotes around it
StatedValue(line) ==
    LET eq == CHOOSE k \in 1..Len(line) :
                  line[k] = "=" /\ \A m \in 1..(k - 1) : line[m] # "="
    IN  strip(SubSeq(line, eq + 1, Len(line)), Whitespace \cup {"\"", "'"})

\* the version the fallback chain names
ChainVersion(meta, pyproject) ==
    IF meta # NotFound THEN meta
    ELSE IF pyproject = Absent THEN <<"0.1.0">>
    ELSE LET ls == split(pyproject.text, NL)
         IN  IF VersionLines(ls) = {} THEN <<"0.1.0">>
             ELSE StatedValue(ls[CHOOSE i \in VersionLines(ls) :
                                     \A j \in VersionLines(ls) : i <= j])

\* C4: once version resolution is over, `version` is defined and is the
\* metadata version if there is one, else the value of the first
\* `version = <value>` line of pyproject.toml, else "0.1.0".
C4_VersionChain ==
    (cmd = "init" /\ pc = "check_docs")
        => (version # Unbound /\ version = ChainVersion(metadata, fs[PYPROJECT]))

\* C5: when sphinx-quickstart exits non-zero, init_docs ends with the error:
\* conf.py is not read or written, no requirements file, .readthedocs.yml,
\* index.rst or stylesheet is written, and nothing is run after the generator.
C5_GeneratorFailureAborts ==
    (cmd = "init" /\ failed = "quickstart") =>
        /\ pc = "crashed"
        /\ error = "CalledProcessError"
        /\ exit_code = 1
        /\ events[Len(events)] = "spawn:sphinx-quickstart"
        /\ ~Has("spawn:pip install -r docs/requirements-docs.txt")
        /\ ~Has("spawn:make html")
        /\ lines = resolve_lines(metadata, fs0[PYPROJECT], <<>>)
        /\ \A p \in {CONF, REQSTXT, INDEXRST, CUSTOMCSS, CSS, IMAGES} :
              fs[p] = Absent
        /\ fs[RTD] = fs0[RTD]

C5_GeneratorFailed ==
    /\ cmd = "init"
    /\ failed = "quickstart"
    /\ pc = "crashed"
    /\ fs[DOCS] = Dir

\* C6: when get_git_root returns None, init_docs ends with an error before
\* any prompt, any subprocess and any change of the tree.
C6_NoRootAborts ==
    (cmd = "init" /\ pc # "start" /\ root = None) =>
        /\ pc = "crashed"
        /\ error = "AttributeError"
        /\ exit_code = 1
        /\ events = <<>>
        /\ fs = fs0

C6_NoRoot ==
    /\ cmd = "init"
    /\ pc = "crashed"
    /\ root = None
    /\ gitdirs = {}
    /\ fs0[DOCS] # Absent

\* C7: when docs/ exists and the operator answers "y", the old docs/ tree is
\* deleted before docs/ is made again and before sphinx-quickstart runs, and
\* no file of the old tree is left in the new one.
C7_OldDocsRemovedFirst ==
    (Answered /\ fs0[DOCS] # Absent /\ begins_with_y(answer)) =>
        /\ Has("rmtree:docs")
        /\ AllBefore("rmtree:docs", "mkdir:docs")
        /\ AllBefore("rmtree:docs", "spawn:sphinx-quickstart")
        /\ \A p \in Paths : startswith(p, DOCS) => fs[p] # Old

C7_Regenerated ==
    /\ Answered
    /\ answer = <<"y">>
    /\ fs0[NOTES] = Old
    /\ fs0[CONF] = Old
    /\ pc = "done"
    /\ fs[CONF] # Absent

\* C8: `vipyto docs build` exits with 1 when its `make html` exits non-zero
\* and with 0, after the success message, when it succeeds; the success
\* message is never logged after a failed build.
C8_BuildExitCode ==
    (cmd = "build" /\ Has("spawn:make html")) =>
        IF failed = "make"
        THEN exit_code = 1 /\ ~Has("log:success")
        ELSE exit_code = 0 /\ events[Len(events)] = "log:success"

C8_BuildFailed ==
    /\ cmd = "build"
    /\ failed = "make"
    /\ Has("log:failed")
    /\ exit_code = 1

\* C9: a non-zero exit of `make html` in init_docs is not fatal: the
\* autoapi_dirs diagnostic is logged, init_docs goes on to its last log line
\* and returns, and the scaffold files stay in place.
C9_InitBuildFailureAdvisory ==
    (cmd = "init" /\ failed = "make") =>
        /\ pc = "done"
        /\ error = "none"
        /\ exit_code = 0
        /\ Has("log:building error")
        /\ ~Has("log:built")
        /\ events[Len(events)] = "log:run make"
        /\ ScaffoldInPlace

C9_InitBuildFailed ==
    /\ cmd = "init"
    /\ failed = "make"
    /\ Has("spawn:make html")
    /\ fs[BUILD] = Absent

\* the nearest directory with a .git directory among c and its ancestors,
\* "/" included
NearestGitDir(c, dirs) ==
    IF dirs \cap (0..c) = {} THEN None
    ELSE CHOOSE d \in dirs \cap (0..c) : \A e \in dirs \cap (0..c) : e <= d

\* C10: get_git_root returns the nearest directory, among the working
\* directory and all its ancestors up to and including the filesystem root,
\* that holds a .git directory, and None only when none of them does.
C10_NearestRoot ==
    (pc # "start") => root = NearestGitDir(cwd, gitdirs)


\* the seed a call with argument a is to leave in the generators
AskedSeed(a) == IF a = None THEN 0 ELSE a

\* C11: set_seeds seeds the torch, random, numpy and CUDA generators with
\* the seed the caller passed, and with 0 only when the argument is omitted.
C11_SeedsAsPassed ==
    (cmd = "set_seeds" /\ pc = "done") =>
        /\ torch_seed = AskedSeed(seed_arg)
        /\ random_seed = AskedSeed(seed_arg)
        /\ np_seed = AskedSeed(seed_arg)
        /\ cuda_seed = AskedSeed(seed_arg)


\* the opening lines of ls that no closing line follows
Unterminated(ls) == {i \in Opens(ls) : ClosesAfter(ls, i) = {}}

FirstUnterminated(ls) ==
    CHOOSE i \in Unterminated(ls) : \A j \in Unterminated(ls) : i <= j

\* the lines before the first opening line that no closing line follows
LinesBeforeOpen(ls) == SubSeq(ls, 1, FirstUnterminated(ls) - 1)

\* C12, as stated: when an opening line is followed by no closing line, the
\* lines from it to the end are dropped, EXTS is never emitted, and the
\* written file is the lines before the opening line, then CONFIGS.
C12_OnlyLinesBeforeOpen ==
    (PassDone /\ Unterminated(lines) # {}) =>
        /\ fs[CONF].text =
              join(LinesBeforeOpen(lines)
                   \o <<replace(CONFIGS, "$PROJECT", project)>>, NL)
        /\ Opens(split(fs[CONF].text, NL)) = {}

\* C12, amended: when an opening line is followed by no closing line, the
\* lines from the first such opening line to the end are dropped and nothing
\* is emitted for them: the written file is what the pass writes for the
\* lines before that opening line alone.  When no extensions block precedes
\* it, EXTS is never emitted and the file is those lines in their order, each
\* as the pass's three line rules leave it (html_theme, static path, General
\* configuration), then CONFIGS.
C12_TailDropped ==
    (PassDone /\ Unterminated(lines) # {}) =>
        LET before == LinesBeforeOpen(lines)
        IN  /\ fs[CONF].text = rewrite_conf(before, project)
            /\ Opens(before) = {} =>
                  /\ fs[CONF].text =
                        join([i \in 1..Len(before) |-> Rewritten(before[i])]
                             \o <<replace(CONFIGS, "$PROJECT", project)>>, NL)
                  /\ Opens(split(fs[CONF].text, NL)) = {}

C12_OpenNeverClosed ==
    /\ PassDone
    /\ Unterminated(lines) # {}
    /\ Opens(LinesBeforeOpen(lines)) = {}
    /\ FirstUnterminated(lines) > 1
    /\ FirstUnterminated(lines) < Len(lines)
    /\ \E i \in 1..Len(LinesBeforeOpen(lines)) :
          LinesBeforeOpen(lines)[i] = GeneralLine

=============================================================================
